---- MODULE Spec2Model ----
(***************************************************************************)
(* The plugin-lib Dispatcher (rust/plugin-lib/src/global/mod.rs): the view *)
(* registry, the pid, and one action per inbound message kind.  A handler  *)
(* is a pure operator from the dispatcher's fields and the message to an   *)
(* Outcome; the action of the same message kind installs that outcome.     *)
(* What the plugin's hooks do is not in mod.rs: a handler yields the set   *)
(* of its possible outcomes, one per choice the hooks it calls can make.    *)
(***************************************************************************)
EXTENDS Integers, Sequences, FiniteSets, TLC

VARIABLES
    views,      \* Dispatcher.views : ViewIdentifier -> View
    pid,        \* Dispatcher.pid   : Option<PluginPid>
    tracing,    \* xi_trace's process-wide enabled flag
    panicked,   \* the handler call panicked (assert! / unwrap): the process is gone
    last,       \* the message handled by the last step
    result,     \* what the last handler returned to the rpc loop
    hooks,      \* the plugin hook calls of the last handler, in call order
    diag,       \* the lines the last handler wrote to stderr
    nbOnly,     \* history: so far one Initialize, then NewBuffer notifications only
    nbSeen,     \* history: while nbOnly, identifier -> the latest BufferInfo carrying it
    priorRev    \* history: the revision the target's cache held before the last Update

vars == <<views, pid, tracing, panicked, last, result, hooks, diag, nbOnly, nbSeen, priorRev>>

----------------------------------------------------------------------------
(* Bounds of the model *)

MaxPid == 2         \* plugin ids 1..MaxPid
MaxRev == 1         \* revisions 0..MaxRev
MaxToken == 3       \* idle tokens 1..MaxToken

----------------------------------------------------------------------------
(* Values *)

None == <<>>
Some(x) == <<x>>

ViewIdentifier(n) == [id |-> n]
ViewIds == {ViewIdentifier(1), ViewIdentifier(2)}
Tokens == 1..MaxToken
PluginPids == 1..MaxPid
Revs == 0..MaxRev
Paths == {"a.rs"}
InfoPaths == {None, Some("a.rs")}
Sizes == {[len |-> 0, lines |-> 1], [len |-> 42, lines |-> 3]}
Deltas == {None, Some("delta")}
ConfigTables == {"tab_size"}
EditTypes == {"insert"}
Authors == {"core"}

BufferInfos == [view_id : ViewIds, path : InfoPaths]
BufferLists == {<<>>} \cup {<<a>> : a \in BufferInfos} \cup {<<a, b>> : a, b \in BufferInfos}

PluginUpdates ==
    {[view_id |-> v, delta |-> d, new_len |-> s.len, new_line_count |-> s.lines, rev |-> r,
      edit_type |-> e, author |-> a] :
        v \in ViewIds, d \in Deltas, s \in Sizes, r \in Revs, e \in EditTypes, a \in Authors}

(* What a hook does to the &mut View it is handed. *)
HookEffects == {"keep", "touch"}
PluginCache == [len |-> 7, lines |-> 7, rev |-> 0]

(* Result<Value, RemoteError>; what the plugin's update hook may return. *)
RemoteError(code, message) == [ok |-> FALSE, code |-> code, message |-> message, data |-> None]
Reply(value) == [ok |-> TRUE, value |-> value]
Unit == Reply("()")
HookResults == {Reply("done"), RemoteError(1, "plugin error")}

----------------------------------------------------------------------------
(* view.rs: View::new, Cache::update, and the Plugin hooks *)

NewCache == [len |-> 0, lines |-> 1, rev |-> 0]

ViewNew(plugin_id, info) ==
    [view_id |-> info.view_id, path |-> info.path, plugin_id |-> plugin_id, cache |-> NewCache]

CacheUpdate(cache, delta, new_len, new_line_count, rev) ==
    [len |-> new_len, lines |-> new_line_count, rev |-> rev]

HookMutate(view, effect) ==
    IF effect = "touch" THEN [view EXCEPT !.cache = PluginCache] ELSE view

(* One entry of the record of hook calls: the hook, the view as handed to it, its *)
(* other argument, the registry keys at the moment of the call, the view as the   *)
(* hook left it, and what the hook returned.                                      *)
HookCall(hook, view, arg, keys, effect, returned) ==
    [hook |-> hook, view |-> view, arg |-> arg, keys |-> keys,
     left |-> HookMutate(view, effect), returned |-> returned]

----------------------------------------------------------------------------
(* Outcomes of a handler call *)

Self == [views |-> views, pid |-> pid, tracing |-> tracing]

Returned(self, res, calls, lines) ==
    [self |-> self, panicked |-> FALSE, result |-> res, hooks |-> calls, diag |-> lines]

Panic(self, calls, lines) ==
    [self |-> self, panicked |-> TRUE, result |-> Unit, hooks |-> calls, diag |-> lines]

Put(f, k, v) == [x \in DOMAIN f \cup {k} |-> IF x = k THEN v ELSE f[x]]
Remove(f, k) == [x \in DOMAIN f \ {k} |-> f[x]]

(* eprintln!("{:?} missing {:?} for {:?}", $pid, $view, $method) *)
MissingLine(p, view_id, method) ==
    [text |-> "missing", pid |-> p, view |-> Some(view_id), method |-> Some(method)]

----------------------------------------------------------------------------
(* impl Dispatcher *)

(* InsertViews with an identifier that is already a key left alone (or_insert) *)
RECURSIVE InsertViews_keep_first(_, _, _, _, _)
InsertViews_keep_first(vs, calls, plugin_id, buffers, i) ==
    IF i > Len(buffers) THEN {[views |-> vs, hooks |-> calls]}
    ELSE UNION {
            LET call == HookCall("new_view", ViewNew(plugin_id, buffers[i]), None,
                                 DOMAIN vs, effect, Unit)
                k == call.left.view_id
            IN  InsertViews_keep_first(IF k \in DOMAIN vs THEN vs ELSE Put(vs, k, call.left),
                                       Append(calls, call), plugin_id, buffers, i + 1) :
            effect \in HookEffects}

(* InsertViews with the view inserted before new_view is called on it *)
RECURSIVE InsertViews_insert_first(_, _, _, _, _)
InsertViews_insert_first(vs, calls, plugin_id, buffers, i) ==
    IF i > Len(buffers) THEN {[views |-> vs, hooks |-> calls]}
    ELSE UNION {
            LET view == ViewNew(plugin_id, buffers[i])
                inserted == Put(vs, view.view_id, view)
                call == HookCall("new_view", view, None, DOMAIN inserted, effect, Unit)
            IN  InsertViews_insert_first(inserted, Append(calls, call), plugin_id, buffers,
                                         i + 1) :
            effect \in HookEffects}

(* InsertViews with every view of the list inserted under the first info's identifier *)
RECURSIVE InsertViews_first_key(_, _, _, _, _)
InsertViews_first_key(vs, calls, plugin_id, buffers, i) ==
    IF i > Len(buffers) THEN {[views |-> vs, hooks |-> calls]}
    ELSE UNION {
            LET call == HookCall("new_view", ViewNew(plugin_id, buffers[i]), None,
                                 DOMAIN vs, effect, Unit)
            IN  InsertViews_first_key(Put(vs, buffers[1].view_id, call.left),
                                      Append(calls, call), plugin_id, buffers, i + 1) :
            effect \in HookEffects}

(* The for_each of do_new_buffer from the i-th BufferInfo on: build the view, hand *)
(* it to new_view, insert it under view.view_id.                                   *)
RECURSIVE InsertViews(_, _, _, _, _)
InsertViews(vs, calls, plugin_id, buffers, i) ==
    IF i > Len(buffers) THEN {[views |-> vs, hooks |-> calls]}
    ELSE UNION {
            LET call == HookCall("new_view", ViewNew(plugin_id, buffers[i]), None,
                                 DOMAIN vs, effect, Unit)
            IN  InsertViews(Put(vs, call.left.view_id, call.left), Append(calls, call),
                            plugin_id, buffers, i + 1) :
            effect \in HookEffects}

(* do_new_buffer with unwrap_or_default() for unwrap(): views are built without a pid *)
do_new_buffer_default_pid(self, buffers) ==
    {Returned([self EXCEPT !.views = done.views], Unit, done.hooks, <<>>) :
        done \in InsertViews(self.views, <<>>,
                             IF self.pid = None THEN 0 ELSE self.pid[1], buffers, 1)}

(* do_new_buffer with the pid unwrapped inside the closure, once per BufferInfo *)
do_new_buffer_lazy_unwrap(self, buffers) ==
    IF buffers = <<>>
    THEN {Returned(self, Unit, <<>>, <<>>)}
    ELSE IF self.pid = None
         THEN {Panic(self, <<>>, <<>>)}
         ELSE {Returned([self EXCEPT !.views = done.views], Unit, done.hooks, <<>>) :
                 done \in InsertViews(self.views, <<>>, self.pid[1], buffers, 1)}

do_new_buffer(self, buffers) ==
    IF self.pid = None
    THEN {Panic(self, <<>>, <<>>)}               \* self.pid.unwrap()
    ELSE {Returned([self EXCEPT !.views = done.views], Unit, done.hooks, <<>>) :
            done \in InsertViews(self.views, <<>>, self.pid[1], buffers, 1)}

(* do_initialize with a repeated Initialize ignored instead of asserted against *)
do_initialize_ignore(self, plugin_id, buffers) ==
    IF self.pid # None
    THEN {Returned(self, Unit, <<>>, <<>>)}
    ELSE do_new_buffer([self EXCEPT !.pid = Some(plugin_id)], buffers)

(* do_initialize without the assert!: a repeated Initialize takes effect *)
do_initialize_again(self, plugin_id, buffers) ==
    do_new_buffer([self EXCEPT !.pid = Some(plugin_id)], buffers)

do_initialize(self, plugin_id, buffers) ==
    IF self.pid # None
    THEN {Panic(self, <<>>, <<>>)}               \* assert!(self.pid.is_none(), ..)
    ELSE do_new_buffer([self EXCEPT !.pid = Some(plugin_id)], buffers)

(* do_did_save with the path set before the hook is called *)
do_did_save_path_first(self, view_id, path) ==
    IF view_id \notin DOMAIN self.views
    THEN {Returned(self, Unit, <<>>, <<MissingLine(self.pid, view_id, "did_save")>>)}
    ELSE {LET saved == [self.views[view_id] EXCEPT !.path = Some(path)]
              call == HookCall("did_save", saved, Some(path), DOMAIN self.views, effect, Unit)
          IN  Returned([self EXCEPT !.views[view_id] = call.left], Unit, <<call>>, <<>>) :
            effect \in HookEffects}

do_did_save(self, view_id, path) ==
    IF view_id \notin DOMAIN self.views
    THEN {Returned(self, Unit, <<>>, <<MissingLine(self.pid, view_id, "did_save")>>)}
    ELSE {LET call == HookCall("did_save", self.views[view_id], Some(path),
                               DOMAIN self.views, effect, Unit)
          IN  Returned([self EXCEPT !.views[view_id] = [call.left EXCEPT !.path = Some(path)]],
                       Unit, <<call>>, <<>>) :
            effect \in HookEffects}

do_config_changed(self, view_id, changes) ==
    IF view_id \notin DOMAIN self.views
    THEN {Returned(self, Unit, <<>>, <<MissingLine(self.pid, view_id, "config_changed")>>)}
    ELSE {LET call == HookCall("config_changed", self.views[view_id], Some(changes),
                               DOMAIN self.views, effect, Unit)
          IN  Returned([self EXCEPT !.views[view_id] = call.left], Unit, <<call>>, <<>>) :
            effect \in HookEffects}

(* do_close with the view removed first and did_close called on the removed value *)
do_close_remove_first(self, view_id) ==
    IF view_id \notin DOMAIN self.views
    THEN {Returned(self, Unit, <<>>, <<MissingLine(self.pid, view_id, "close")>>)}
    ELSE LET removed == Remove(self.views, view_id)
             call == HookCall("did_close", self.views[view_id], None, DOMAIN removed,
                              "keep", Unit)
         IN  {Returned([self EXCEPT !.views = removed], Unit, <<call>>, <<>>)}

(* do_close without the remove *)
do_close_leak(self, view_id) ==
    IF view_id \notin DOMAIN self.views
    THEN {Returned(self, Unit, <<>>, <<MissingLine(self.pid, view_id, "close")>>)}
    ELSE LET call == HookCall("did_close", self.views[view_id], None,
                              DOMAIN self.views, "keep", Unit)
         IN  {Returned(self, Unit, <<call>>, <<>>)}

(* do_close with the lookup unwrapped instead of bailed out of *)
do_close_unwrap(self, view_id) ==
    IF view_id \notin DOMAIN self.views
    THEN {Panic(self, <<>>, <<>>)}
    ELSE LET call == HookCall("did_close", self.views[view_id], None,
                              DOMAIN self.views, "keep", Unit)
         IN  {Returned([self EXCEPT !.views = Remove(self.views, view_id)],
                       Unit, <<call>>, <<>>)}

(* did_close takes &View: the hook cannot change the view. *)
do_close(self, view_id) ==
    IF view_id \notin DOMAIN self.views
    THEN {Returned(self, Unit, <<>>, <<MissingLine(self.pid, view_id, "close")>>)}
    ELSE LET call == HookCall("did_close", self.views[view_id], None,
                              DOMAIN self.views, "keep", Unit)
         IN  {Returned([self EXCEPT !.views = Remove(self.views, view_id)],
                       Unit, <<call>>, <<>>)}

MissingViewCode == 404
NotSupportedCode == 100

(* do_update with the lookup through entry().or_insert_with: a missing view is created *)
do_update_or_insert(self, update) ==
    IF update.view_id \notin DOMAIN self.views
    THEN {Returned([self EXCEPT !.views = Put(self.views, update.view_id,
                        ViewNew(self.pid, [view_id |-> update.view_id, path |-> None]))],
                   RemoteError(MissingViewCode, "missing view"), <<>>,
                   <<MissingLine(self.pid, update.view_id, "update")>>)}
    ELSE LET v == self.views[update.view_id]
             cached == [v EXCEPT !.cache = CacheUpdate(v.cache, update.delta, update.new_len,
                                                       update.new_line_count, update.rev)]
         IN  {LET call == HookCall("update", cached, update.delta, DOMAIN self.views,
                                   effect, hookResult)
              IN  Returned([self EXCEPT !.views[update.view_id] = call.left],
                           call.returned, <<call>>, <<>>) :
                effect \in HookEffects, hookResult \in HookResults}

(* do_update with an Update whose revision is below the cache's dropped *)
do_update_skip_stale(self, update) ==
    IF update.view_id \notin DOMAIN self.views
    THEN {Returned(self, RemoteError(MissingViewCode, "missing view"), <<>>,
                   <<MissingLine(self.pid, update.view_id, "update")>>)}
    ELSE LET v == self.views[update.view_id]
             cached == IF update.rev < v.cache.rev
                       THEN v
                       ELSE [v EXCEPT !.cache = CacheUpdate(v.cache, update.delta,
                                                           update.new_len,
                                                           update.new_line_count, update.rev)]
         IN  {LET call == HookCall("update", cached, update.delta, DOMAIN self.views,
                                   effect, hookResult)
              IN  Returned([self EXCEPT !.views[update.view_id] = call.left],
                           call.returned, <<call>>, <<>>) :
                effect \in HookEffects, hookResult \in HookResults}

(* do_update with the cache update applied to every registered view *)
do_update_broadcast(self, update) ==
    IF update.view_id \notin DOMAIN self.views
    THEN {Returned(self, RemoteError(MissingViewCode, "missing view"), <<>>,
                   <<MissingLine(self.pid, update.view_id, "update")>>)}
    ELSE LET all == [w \in DOMAIN self.views |->
                        [self.views[w] EXCEPT !.cache =
                            CacheUpdate(self.views[w].cache, update.delta, update.new_len,
                                        update.new_line_count, update.rev)]]
         IN  {LET call == HookCall("update", all[update.view_id], update.delta,
                                   DOMAIN self.views, effect, hookResult)
              IN  Returned([self EXCEPT !.views = [all EXCEPT ![update.view_id] = call.left]],
                           call.returned, <<call>>, <<>>) :
                effect \in HookEffects, hookResult \in HookResults}

(* do_update with the missing view logged as the notifications do: no error returned *)
do_update_silent(self, update) ==
    IF update.view_id \notin DOMAIN self.views
    THEN {Returned(self, Unit, <<>>, <<MissingLine(self.pid, update.view_id, "update")>>)}
    ELSE LET v == self.views[update.view_id]
             cached == [v EXCEPT !.cache = CacheUpdate(v.cache, update.delta, update.new_len,
                                                       update.new_line_count, update.rev)]
         IN  {LET call == HookCall("update", cached, update.delta, DOMAIN self.views,
                                   effect, hookResult)
              IN  Returned([self EXCEPT !.views[update.view_id] = call.left],
                           call.returned, <<call>>, <<>>) :
                effect \in HookEffects, hookResult \in HookResults}

(* do_update with the hook called before the cache is updated *)
do_update_hook_first(self, update) ==
    IF update.view_id \notin DOMAIN self.views
    THEN {Returned(self, RemoteError(MissingViewCode, "missing view"), <<>>,
                   <<MissingLine(self.pid, update.view_id, "update")>>)}
    ELSE LET v == self.views[update.view_id]
         IN  {LET call == HookCall("update", v, update.delta, DOMAIN self.views,
                                   effect, hookResult)
                  cached == [call.left EXCEPT !.cache =
                                CacheUpdate(call.left.cache, update.delta, update.new_len,
                                            update.new_line_count, update.rev)]
              IN  Returned([self EXCEPT !.views[update.view_id] = cached],
                           call.returned, <<call>>, <<>>) :
                effect \in HookEffects, hookResult \in HookResults}

do_update(self, update) ==
    IF update.view_id \notin DOMAIN self.views
    THEN {Returned(self, RemoteError(MissingViewCode, "missing view"), <<>>,
                   <<MissingLine(self.pid, update.view_id, "update")>>)}
    ELSE LET v == self.views[update.view_id]
             cached == [v EXCEPT !.cache = CacheUpdate(v.cache, update.delta, update.new_len,
                                                       update.new_line_count, update.rev)]
         IN  {LET call == HookCall("update", cached, update.delta, DOMAIN self.views,
                                   effect, hookResult)
              IN  Returned([self EXCEPT !.views[update.view_id] = call.left],
                           call.returned, <<call>>, <<>>) :
                effect \in HookEffects, hookResult \in HookResults}

do_shutdown(self) == {Returned(self, Unit, <<>>, <<>>)}

(* do_tracing_config with the two branches swapped *)
do_tracing_config_swapped(self, enabled) ==
    {Returned([self EXCEPT !.tracing = ~enabled], Unit, <<>>,
              <<[text |-> IF enabled THEN "Enabling tracing" ELSE "Disabling tracing",
                 pid |-> self.pid, view |-> None, method |-> None]>>)}

do_tracing_config(self, enabled) ==
    {Returned([self EXCEPT !.tracing = enabled], Unit, <<>>,
              <<[text |-> IF enabled THEN "Enabling tracing" ELSE "Disabling tracing",
                 pid |-> self.pid, view |-> None, method |-> None]>>)}

----------------------------------------------------------------------------
(* impl RpcHandler for Dispatcher *)

handle_notification(self, rpc) ==
    CASE rpc.kind = "Initialize" -> do_initialize(self, rpc.plugin_id, rpc.buffer_info)
      [] rpc.kind = "DidSave" -> do_did_save(self, rpc.view_id, rpc.path)
      [] rpc.kind = "ConfigChanged" -> do_config_changed(self, rpc.view_id, rpc.changes)
      [] rpc.kind = "NewBuffer" -> do_new_buffer(self, rpc.buffer_info)
      [] rpc.kind = "DidClose" -> do_close(self, rpc.view_id)
      [] rpc.kind = "Shutdown" -> do_shutdown(self)
      [] rpc.kind = "TracingConfig" -> do_tracing_config(self, rpc.enabled)
      [] rpc.kind = "Ping" -> {Returned(self, Unit, <<>>, <<>>)}

(* handle_request with CollectTrace answered like a missing view *)
handle_request_one_code(self, rpc) ==
    CASE rpc.kind = "Update" -> do_update(self, rpc.params)
      [] rpc.kind = "CollectTrace" ->
            {Returned(self, RemoteError(MissingViewCode, "missing view"), <<>>, <<>>)}

handle_request(self, rpc) ==
    CASE rpc.kind = "Update" -> do_update(self, rpc.params)
      [] rpc.kind = "CollectTrace" ->
            {Returned(self, RemoteError(NotSupportedCode, "method not supported"), <<>>, <<>>)}

ViewIdFromToken(token) == ViewIdentifier(token)

(* idle with the lookup unwrapped instead of bailed out of *)
idle_unwrap(self, token) ==
    LET view_id == ViewIdFromToken(token)
    IN  IF view_id \notin DOMAIN self.views
        THEN {Panic(self, <<>>, <<>>)}
        ELSE {LET call == HookCall("idle", self.views[view_id], None, DOMAIN self.views,
                                   effect, Unit)
              IN  Returned([self EXCEPT !.views[view_id] = call.left], Unit, <<call>>, <<>>) :
                effect \in HookEffects}

idle(self, token) ==
    LET view_id == ViewIdFromToken(token)
    IN  IF view_id \notin DOMAIN self.views
        THEN {Returned(self, Unit, <<>>, <<MissingLine(self.pid, view_id, "idle")>>)}
        ELSE {LET call == HookCall("idle", self.views[view_id], None, DOMAIN self.views,
                                   effect, Unit)
              IN  Returned([self EXCEPT !.views[view_id] = call.left], Unit, <<call>>, <<>>) :
                effect \in HookEffects}

----------------------------------------------------------------------------
(* The rpc loop: one message at a time, each handled to completion *)

(* identifier -> the latest BufferInfo of the list carrying it, over what was seen *)
RECURSIVE Latest(_, _, _)
Latest(seen, buffers, i) ==
    IF i > Len(buffers) THEN seen
    ELSE Latest(Put(seen, buffers[i].view_id, buffers[i]), buffers, i + 1)

Install(rpc, out, only, seen) ==
    /\ views' = out.self.views
    /\ pid' = out.self.pid
    /\ tracing' = out.self.tracing
    /\ panicked' = out.panicked
    /\ result' = out.result
    /\ hooks' = out.hooks
    /\ diag' = out.diag
    /\ last' = rpc
    /\ nbOnly' = (only /\ ~out.panicked)
    /\ nbSeen' = IF only /\ ~out.panicked THEN seen ELSE <<>>
    /\ priorRev' = IF rpc.kind = "Update" /\ rpc.params.view_id \in DOMAIN views
                   THEN Some(views[rpc.params.view_id].cache.rev)
                   ELSE None

Init ==
    /\ views = <<>>
    /\ pid = None
    /\ tracing = FALSE
    /\ panicked = FALSE
    /\ last = [kind |-> "none"]
    /\ result = Unit
    /\ hooks = <<>>
    /\ diag = <<>>
    /\ nbOnly = FALSE
    /\ nbSeen = <<>>
    /\ priorRev = None

Initialize ==
    /\ ~panicked
    /\ \E plugin_id \in PluginPids, buffers \in BufferLists :
         LET rpc == [kind |-> "Initialize", plugin_id |-> plugin_id, buffer_info |-> buffers]
         IN  \E out \in handle_notification(Self, rpc) :
                Install(rpc, out, TRUE, Latest(<<>>, buffers, 1))

NewBuffer ==
    /\ ~panicked
    /\ \E buffers \in BufferLists :
         LET rpc == [kind |-> "NewBuffer", buffer_info |-> buffers]
         IN  \E out \in handle_notification(Self, rpc) :
                Install(rpc, out, nbOnly, Latest(nbSeen, buffers, 1))

DidSave ==
    /\ ~panicked
    /\ \E view_id \in ViewIds, path \in Paths :
         LET rpc == [kind |-> "DidSave", view_id |-> view_id, path |-> path]
         IN  \E out \in handle_notification(Self, rpc) : Install(rpc, out, FALSE, <<>>)

ConfigChanged ==
    /\ ~panicked
    /\ \E view_id \in ViewIds, changes \in ConfigTables :
         LET rpc == [kind |-> "ConfigChanged", view_id |-> view_id, changes |-> changes]
         IN  \E out \in handle_notification(Self, rpc) : Install(rpc, out, FALSE, <<>>)

DidClose ==
    /\ ~panicked
    /\ \E view_id \in ViewIds :
         LET rpc == [kind |-> "DidClose", view_id |-> view_id]
         IN  \E out \in handle_notification(Self, rpc) : Install(rpc, out, FALSE, <<>>)

Shutdown ==
    /\ ~panicked
    /\ LET rpc == [kind |-> "Shutdown"]
       IN  \E out \in handle_notification(Self, rpc) : Install(rpc, out, FALSE, <<>>)

TracingConfig ==
    /\ ~panicked
    /\ \E enabled \in BOOLEAN :
         LET rpc == [kind |-> "TracingConfig", enabled |-> enabled]
         IN  \E out \in handle_notification(Self, rpc) : Install(rpc, out, FALSE, <<>>)

Ping ==
    /\ ~panicked
    /\ LET rpc == [kind |-> "Ping"]
       IN  \E out \in handle_notification(Self, rpc) : Install(rpc, out, FALSE, <<>>)

Update ==
    /\ ~panicked
    /\ \E params \in PluginUpdates :
         LET rpc == [kind |-> "Update", params |-> params]
         IN  \E out \in handle_request(Self, rpc) : Install(rpc, out, FALSE, <<>>)

CollectTrace ==
    /\ ~panicked
    /\ LET rpc == [kind |-> "CollectTrace"]
       IN  \E out \in handle_request(Self, rpc) : Install(rpc, out, FALSE, <<>>)

Idle ==
    /\ ~panicked
    /\ \E token \in Tokens :
         LET rpc == [kind |-> "Idle", token |-> token]
         IN  \E out \in idle(Self, token) : Install(rpc, out, FALSE, <<>>)

Next ==
    \/ Initialize
    \/ NewBuffer
    \/ DidSave
    \/ ConfigChanged
    \/ DidClose
    \/ Shutdown
    \/ TracingConfig
    \/ Ping
    \/ Update
    \/ CollectTrace
    \/ Idle

Spec == Init /\ [][Next]_vars

----------------------------------------------------------------------------
(* Properties *)

(* C1: an Update whose view_id is not a registry key returns the error with code   *)
(* 404 and message "missing view"; no hook is invoked, and the registry (so every  *)
(* cache) and the pid are as before the request.                                   *)
C1_UpdateMissingView ==
    [][(last'.kind = "Update" /\ last'.params.view_id \notin DOMAIN views) =>
          /\ result' = [ok |-> FALSE, code |-> 404, message |-> "missing view", data |-> None]
          /\ hooks' = <<>>
          /\ views' = views
          /\ pid' = pid
          /\ ~panicked']_vars

C1_Witness ==
    /\ last.kind = "Update"
    /\ last.params.view_id \notin DOMAIN views
    /\ views # <<>>
    /\ ~result.ok /\ result.code = 404

(* C2: an Update for a registered view first updates the view's cache to new_len,  *)
(* new_line_count and rev, then invokes the update hook exactly once on that view  *)
(* with the message's delta (absent when the message's is), and the request's      *)
(* result is the hook's result, a reply or an error.                               *)
C2_UpdateRegisteredView ==
    [][(last'.kind = "Update" /\ last'.params.view_id \in DOMAIN views) =>
          LET u == last'.params
              v == views[u.view_id]
          IN  /\ Len(hooks') = 1
              /\ hooks'[1].hook = "update"
              /\ hooks'[1].view = [v EXCEPT !.cache = [len |-> u.new_len,
                                                       lines |-> u.new_line_count,
                                                       rev |-> u.rev]]
              /\ hooks'[1].arg = u.delta
              /\ result' = hooks'[1].returned
              /\ views'[u.view_id] = hooks'[1].left
              /\ ~panicked']_vars

C2_Witness ==
    /\ last.kind = "Update"
    /\ Len(hooks) = 1
    /\ hooks[1].view.cache = [len |-> 42, lines |-> 3, rev |-> 1]
    /\ hooks[1].arg = None
    /\ ~result.ok

(* C3: CollectTrace returns the "method not supported" error, code 100, in every   *)
(* state, before Initialize too; it invokes no hook, leaves pid and the registry   *)
(* unchanged, and its code is not the code of Update's "missing view" error.       *)
C3_CollectTraceNotSupported ==
    [][last'.kind = "CollectTrace" =>
          /\ result' = [ok |-> FALSE, code |-> 100, message |-> "method not supported",
                        data |-> None]
          /\ result'.code # 404
          /\ result'.code # MissingViewCode
          /\ hooks' = <<>>
          /\ views' = views
          /\ pid' = pid
          /\ ~panicked']_vars

C3_Witness ==
    /\ last.kind = "CollectTrace"
    /\ pid = None
    /\ ~result.ok /\ result.code = 100

(* C4: from an initialized dispatcher with an empty registry, after any sequence   *)
(* of NewBuffer notifications (and nothing else) the registry keys are exactly the *)
(* identifiers of the buffer infos carried; an identifier carried twice has one    *)
(* entry, the view built from the later info.                                      *)
C4_NewBufferKeys ==
    nbOnly =>
        /\ DOMAIN views = DOMAIN nbSeen
        /\ \A k \in DOMAIN views :
              /\ views[k].view_id = nbSeen[k].view_id
              /\ views[k].path = nbSeen[k].path
              /\ views[k].plugin_id = pid[1]

C4_Witness ==
    /\ nbOnly
    /\ last.kind = "NewBuffer"
    /\ Len(last.buffer_info) = 2
    /\ last.buffer_info[1].view_id = last.buffer_info[2].view_id
    /\ last.buffer_info[1].path # last.buffer_info[2].path
    /\ Cardinality(DOMAIN views) = 2

InfoIds(buffers) == {buffers[i].view_id : i \in 1..Len(buffers)}
IsLatest(buffers, i) == \A j \in (i + 1)..Len(buffers) : buffers[j].view_id # buffers[i].view_id

(* a repeated Initialize (pid already set) fails fatally and changes nothing *)
RepeatedInitializeFails ==
    /\ panicked'
    /\ pid' = pid
    /\ views' = views
    /\ hooks' = <<>>

(* C5 as stated: Initialize(pid, [b1, b2]) on a fresh dispatcher records pid and   *)
(* leaves exactly 2 views; an Initialize with pid already set fails fatally and    *)
(* changes neither pid nor registry nor invokes a hook.                            *)
C5_Original ==
    [][last'.kind = "Initialize" =>
          IF pid = None
          THEN /\ ~panicked'
               /\ pid' = Some(last'.plugin_id)
               /\ DOMAIN views' = InfoIds(last'.buffer_info)
               /\ Len(last'.buffer_info) = 2 => Cardinality(DOMAIN views') = 2
          ELSE RepeatedInitializeFails]_vars

(* C5 amended: Initialize(pid, [b1, b2]) on a fresh dispatcher records pid and     *)
(* leaves the views of b1 and b2: exactly 2 views when their identifiers differ,   *)
(* and 1 view, built from b2, when they are the same; an Initialize with pid       *)
(* already set fails fatally and changes neither pid nor registry nor invokes a    *)
(* hook.                                                                           *)
C5_Initialize ==
    [][last'.kind = "Initialize" =>
          LET bs == last'.buffer_info
          IN  IF pid = None
              THEN /\ views = <<>>
                   /\ ~panicked'
                   /\ pid' = Some(last'.plugin_id)
                   /\ DOMAIN views' = InfoIds(bs)
                   /\ \A i \in 1..Len(bs) :
                         IsLatest(bs, i) =>
                            /\ views'[bs[i].view_id].view_id = bs[i].view_id
                            /\ views'[bs[i].view_id].path = bs[i].path
                   /\ Len(bs) = 2 =>
                         Cardinality(DOMAIN views') =
                            IF bs[1].view_id # bs[2].view_id THEN 2 ELSE 1
              ELSE RepeatedInitializeFails]_vars

C5_Witness ==
    /\ last.kind = "Initialize"
    /\ ~panicked
    /\ pid = Some(last.plugin_id)
    /\ Len(last.buffer_info) = 2
    /\ Cardinality(DOMAIN views) = 2

(* C6: the pid is absent initially, stays absent until an Initialize is handled,   *)
(* becomes that Initialize's plugin_id, and never changes afterwards.              *)
C6_PidSetOnce ==
    /\ pid = None
    /\ [][/\ pid # None => pid' = pid
          /\ (pid = None /\ last'.kind # "Initialize") => pid' = None
          /\ (pid = None /\ last'.kind = "Initialize") => pid' = Some(last'.plugin_id)]_vars

C6_Witness ==
    /\ last.kind = "Initialize"
    /\ pid # None
    /\ pid # Some(last.plugin_id)

(* C7: DidClose(v) for a registered v invokes did-close exactly once, on v's final *)
(* state while v is still a registry key, and then removes v; every other entry is *)
(* unchanged.                                                                      *)
C7_DidCloseRegistered ==
    [][(last'.kind = "DidClose" /\ last'.view_id \in DOMAIN views) =>
          LET v == last'.view_id
          IN  /\ Len(hooks') = 1
              /\ hooks'[1].hook = "did_close"
              /\ hooks'[1].view = views[v]
              /\ v \in hooks'[1].keys
              /\ hooks'[1].keys = DOMAIN views
              /\ DOMAIN views' = DOMAIN views \ {v}
              /\ \A w \in DOMAIN views' : views'[w] = views[w]
              /\ pid' = pid
              /\ ~panicked']_vars

C7_Witness ==
    /\ last.kind = "DidClose"
    /\ Len(hooks) = 1
    /\ hooks[1].hook = "did_close"
    /\ last.view_id \notin DOMAIN views
    /\ views # <<>>

MethodName(kind) ==
    CASE kind = "DidSave" -> "did_save"
      [] kind = "ConfigChanged" -> "config_changed"
      [] kind = "DidClose" -> "close"

(* C8: DidSave, ConfigChanged or DidClose for a view_id not in the registry is     *)
(* non-fatal: no hook, pid and registry unchanged, exactly one diagnostic carrying *)
(* the pid (or its absence), the message kind and the view identifier.             *)
C8_NotificationMissingView ==
    [][(/\ last'.kind \in {"DidSave", "ConfigChanged", "DidClose"}
        /\ last'.view_id \notin DOMAIN views) =>
          /\ hooks' = <<>>
          /\ views' = views
          /\ pid' = pid
          /\ ~panicked'
          /\ result' = Unit
          /\ diag' = <<[text |-> "missing", pid |-> pid, view |-> Some(last'.view_id),
                        method |-> Some(MethodName(last'.kind))]>>]_vars

C8_Witness ==
    /\ last.kind \in {"DidSave", "ConfigChanged", "DidClose"}
    /\ Len(diag) = 1
    /\ diag[1].pid = None
    /\ diag[1].view = Some(last.view_id)
    /\ ~panicked

(* C9: Idle(token): the token decodes to a view identifier; an unregistered one    *)
(* gives only a diagnostic (no hook, no panic, no error value), a registered one   *)
(* gets the idle hook exactly once; pid and the registry keys are unchanged.       *)
C9_Idle ==
    [][last'.kind = "Idle" =>
          LET v == [id |-> last'.token]
          IN  /\ pid' = pid
              /\ DOMAIN views' = DOMAIN views
              /\ ~panicked'
              /\ result' = Unit
              /\ IF v \in DOMAIN views
                 THEN /\ Len(hooks') = 1
                      /\ hooks'[1].hook = "idle"
                      /\ hooks'[1].view = views[v]
                      /\ diag' = <<>>
                 ELSE /\ hooks' = <<>>
                      /\ views' = views
                      /\ diag' = <<[text |-> "missing", pid |-> pid, view |-> Some(v),
                                    method |-> Some("idle")]>>]_vars

C9_Witness ==
    /\ last.kind = "Idle"
    /\ [id |-> last.token] \notin DOMAIN views
    /\ views # <<>>
    /\ hooks = <<>>
    /\ Len(diag) = 1

IsRequest(kind) == kind \in {"Update", "CollectTrace"}

(* C10 as stated: whenever a request returns an error (missing view, method not    *)
(* supported, or the update hook's own error) the registry, with each view's path  *)
(* and cache, is the same after the request as before it.  Stated for the calls    *)
(* whose hook leaves the view as it was handed, so that only the dispatcher's own  *)
(* writes can break it.                                                            *)
C10_Original ==
    [][(/\ IsRequest(last'.kind)
        /\ ~result'.ok
        /\ \A i \in 1..Len(hooks') : hooks'[i].left = hooks'[i].view) => views' = views]_vars

(* C10 amended: whenever a request returns an error, the registry keys and every   *)
(* view other than the Update's target are the same after as before; for the       *)
(* missing-view and method-not-supported errors the whole registry is the same;    *)
(* when the update hook returns the error, the target's cache was updated to the   *)
(* request's new_len, new_line_count and rev before the hook ran, and the target   *)
(* is left as the hook left it.                                                    *)
C10_RequestError ==
    [][(IsRequest(last'.kind) /\ ~result'.ok) =>
          /\ DOMAIN views' = DOMAIN views
          /\ pid' = pid
          /\ IF hooks' = <<>>
             THEN views' = views
             ELSE LET u == last'.params
                  IN  /\ last'.kind = "Update"
                      /\ result' = hooks'[1].returned
                      /\ \A w \in DOMAIN views \ {u.view_id} : views'[w] = views[w]
                      /\ hooks'[1].view.cache =
                            [len |-> u.new_len, lines |-> u.new_line_count, rev |-> u.rev]
                      /\ hooks'[1].view.path = views[u.view_id].path
                      /\ views'[u.view_id] = hooks'[1].left]_vars

C10_Witness ==
    /\ last.kind = "Update"
    /\ ~result.ok
    /\ Len(hooks) = 1
    /\ hooks[1].returned = result
    /\ Cardinality(DOMAIN views) = 2
    /\ views[last.params.view_id].cache.rev = 1

IsNewBufferEvent(kind) == kind \in {"NewBuffer", "Initialize"}

(* the i-th hook call of the log is a new_view whose view then replaces an entry *)
Replaces(calls, i) == calls[i].hook = "new_view" /\ calls[i].left.view_id \in calls[i].keys

(* a View enters the registry only in a new-buffer event, under an identifier the  *)
(* event carries, one View being built (and handed to new_view) per BufferInfo      *)
CreatedByNewBufferOnly ==
    /\ \A k \in DOMAIN views' \ DOMAIN views :
          IsNewBufferEvent(last'.kind) /\ k \in InfoIds(last'.buffer_info)
    /\ IF IsNewBufferEvent(last'.kind) /\ ~panicked'
       THEN /\ Len(hooks') = Len(last'.buffer_info)
            /\ \A i \in 1..Len(hooks') :
                  /\ hooks'[i].hook = "new_view"
                  /\ hooks'[i].view.view_id = last'.buffer_info[i].view_id
       ELSE \A i \in 1..Len(hooks') : hooks'[i].hook # "new_view"

(* a key that leaves the registry leaves in a DidClose for it, did_close having    *)
(* been invoked on the entry                                                        *)
RemovedByCloseOnly ==
    \A k \in DOMAIN views \ DOMAIN views' :
        /\ last'.kind = "DidClose"
        /\ last'.view_id = k
        /\ Len(hooks') = 1
        /\ hooks'[1].hook = "did_close"
        /\ hooks'[1].view = views[k]

(* C11 as stated: a View is created only by a new-buffer event, one per BufferInfo, *)
(* and a View that was put in the registry leaves it only by a DidClose for its     *)
(* identifier, with did-close invoked on it: no View is dropped any other way.      *)
C11_Original ==
    [][/\ CreatedByNewBufferOnly
       /\ RemovedByCloseOnly
       /\ \A i \in 1..Len(hooks') : ~Replaces(hooks', i)]_vars

(* C11 amended: a View is created only by a new-buffer event, one per BufferInfo;   *)
(* a View that was put in the registry and is no longer in it was either removed    *)
(* by a DidClose for its identifier, with did-close invoked on it, or overwritten   *)
(* by a later BufferInfo of a new-buffer event carrying its identifier, and then    *)
(* no did-close hook is invoked on it.                                              *)
C11_ViewLifecycle ==
    [][/\ CreatedByNewBufferOnly
       /\ RemovedByCloseOnly
       /\ \A i \in 1..Len(hooks') :
             Replaces(hooks', i) =>
                /\ IsNewBufferEvent(last'.kind)
                /\ hooks'[i].left.view_id \in InfoIds(last'.buffer_info)
                /\ \A j \in 1..Len(hooks') : hooks'[j].hook # "did_close"
       /\ \A k \in DOMAIN views \cap DOMAIN views' :
             (\A i \in 1..Len(hooks') : ~(Replaces(hooks', i) /\ hooks'[i].left.view_id = k)) =>
                /\ views'[k].view_id = views[k].view_id
                /\ views'[k].plugin_id = views[k].plugin_id]_vars

C11_Witness ==
    /\ last.kind = "NewBuffer"
    /\ ~panicked
    /\ Len(hooks) = 1
    /\ Replaces(hooks, 1)
    /\ Cardinality(DOMAIN views) = 2

(* C12: DidSave(v, path) for a registered v invokes did-save exactly once with the *)
(* view and the new path while the view's path is still its previous value, then   *)
(* sets the view's path to the new path; the registry keys are unchanged.          *)
C12_DidSaveRegistered ==
    [][(last'.kind = "DidSave" /\ last'.view_id \in DOMAIN views) =>
          LET v == last'.view_id
          IN  /\ Len(hooks') = 1
              /\ hooks'[1].hook = "did_save"
              /\ hooks'[1].view = views[v]
              /\ hooks'[1].view.path = views[v].path
              /\ hooks'[1].arg = Some(last'.path)
              /\ views'[v] = [hooks'[1].left EXCEPT !.path = Some(last'.path)]
              /\ views'[v].path = Some(last'.path)
              /\ DOMAIN views' = DOMAIN views
              /\ ~panicked']_vars

C12_Witness ==
    /\ last.kind = "DidSave"
    /\ Len(hooks) = 1
    /\ hooks[1].hook = "did_save"
    /\ hooks[1].view.path = None
    /\ views[last.view_id].path = Some(last.path)

(* C13: NewBuffer, and the NewBuffer step of Initialize, takes the buffer infos in *)
(* the order given and invokes new-view exactly once per info, on the freshly      *)
(* built view and before that view is inserted, also when the identifier is        *)
(* already a key; the view inserted is the view as the hook left it.               *)
C13_NewViewBeforeInsert ==
    (IsNewBufferEvent(last.kind) /\ ~panicked) =>
        LET bs == last.buffer_info
        IN  /\ Len(hooks) = Len(bs)
            /\ \A i \in 1..Len(bs) :
                  /\ hooks[i].hook = "new_view"
                  /\ hooks[i].view.view_id = bs[i].view_id
                  /\ hooks[i].view.path = bs[i].path
                  /\ hooks[i].view.plugin_id = pid[1]
                  /\ hooks[i].view.cache = [len |-> 0, lines |-> 1, rev |-> 0]
                  /\ hooks[i].keys = hooks[1].keys \cup {bs[j].view_id : j \in 1..(i - 1)}
                  /\ IsLatest(bs, i) => views[bs[i].view_id] = hooks[i].left
            /\ Len(bs) > 0 => DOMAIN views = hooks[1].keys \cup InfoIds(bs)
            /\ last.kind = "Initialize" /\ Len(bs) > 0 => hooks[1].keys = {}

C13_Witness ==
    /\ last.kind = "NewBuffer"
    /\ ~panicked
    /\ Len(hooks) = 2
    /\ hooks[1].view.view_id # hooks[2].view.view_id
    /\ hooks[2].view.view_id \in hooks[1].keys
    /\ hooks[2].left # hooks[2].view
    /\ views[hooks[2].view.view_id] = hooks[2].left

(* C14: a NewBuffer handled while pid is unset fails fatally, also with an empty   *)
(* buffer list; it builds no view, invokes no new-view hook and inserts nothing.   *)
C14_NewBufferNeedsPid ==
    (last.kind = "NewBuffer" /\ pid = None) =>
        /\ panicked
        /\ hooks = <<>>
        /\ views = <<>>

C14_Witness ==
    /\ last.kind = "NewBuffer"
    /\ last.buffer_info = <<>>
    /\ pid = None
    /\ panicked

C16_PingShutdownTracing ==
    [][last'.kind \in {"Ping", "Shutdown", "TracingConfig"} =>
          /\ ~panicked'
          /\ hooks' = <<>>
          /\ views' = views
          /\ pid' = pid
          /\ result' = Unit
          /\ IF last'.kind = "TracingConfig"
             THEN tracing' = last'.enabled
             ELSE tracing' = tracing /\ diag' = <<>>]_vars

C16_Witness ==
    /\ last.kind = "TracingConfig"
    /\ last.enabled
    /\ tracing
    /\ pid = None
    /\ ~panicked

TargetsView(kind) == kind \in {"DidSave", "ConfigChanged", "DidClose", "Update", "Idle"}

Target(rpc) ==
    CASE rpc.kind = "Update" -> rpc.params.view_id
      [] rpc.kind = "Idle" -> [id |-> rpc.token]
      [] OTHER -> rpc.view_id

(* C17: a hook other than new-view is only ever invoked on a view that is in the   *)
(* registry at the moment of the call; once DidClose has removed v, no did-save,   *)
(* config-changed, update, idle or did-close hook is invoked for v and every       *)
(* Update for v returns "missing view", until a NewBuffer carrying v puts a view   *)
(* under that key again.                                                           *)
C17_HooksOnRegisteredViews ==
    [][/\ \A i \in 1..Len(hooks') :
             hooks'[i].hook # "new_view" =>
                /\ TargetsView(last'.kind)
                /\ hooks'[i].view.view_id = Target(last')
                /\ hooks'[i].view.view_id \in hooks'[i].keys
                /\ hooks'[i].keys = DOMAIN views
       /\ (last'.kind = "DidClose" /\ ~panicked') => last'.view_id \notin DOMAIN views'
       /\ (TargetsView(last'.kind) /\ Target(last') \notin DOMAIN views) =>
             /\ hooks' = <<>>
             /\ Target(last') \notin DOMAIN views'
             /\ last'.kind = "Update" =>
                   result' = [ok |-> FALSE, code |-> 404, message |-> "missing view",
                              data |-> None]
       /\ \A v \in DOMAIN views' \ DOMAIN views :
             IsNewBufferEvent(last'.kind) /\ v \in InfoIds(last'.buffer_info)]_vars

C17_Witness ==
    /\ last.kind = "DidClose"
    /\ Len(hooks) = 1
    /\ hooks[1].hook = "did_close"
    /\ hooks[1].keys = {last.view_id}
    /\ views = <<>>
    /\ ~panicked

(* C18: handling a message that targets view v (DidSave, ConfigChanged, DidClose,  *)
(* Update or Idle with identifier v) passes only view v to the plugin and leaves   *)
(* every other registered view (path, cache length, line count, revision) and the  *)
(* pid unchanged.                                                                  *)
C18_OtherViewsUntouched ==
    [][TargetsView(last'.kind) =>
          LET v == Target(last')
          IN  /\ \A i \in 1..Len(hooks') : hooks'[i].view.view_id = v
              /\ \A w \in DOMAIN views \ {v} :
                    /\ w \in DOMAIN views'
                    /\ views'[w].path = views[w].path
                    /\ views'[w].cache = views[w].cache
                    /\ views'[w] = views[w]
              /\ DOMAIN views' \subseteq DOMAIN views
              /\ pid' = pid]_vars

C18_Witness ==
    /\ last.kind = "Update"
    /\ Len(hooks) = 1
    /\ hooks[1].left # hooks[1].view
    /\ \E w \in DOMAIN views :
          /\ w # last.params.view_id
          /\ views[w].cache = [len |-> 42, lines |-> 3, rev |-> 1]
          /\ views[w].path = Some("a.rs")

(* C19: in every reachable state a non-empty registry implies that pid is set: no  *)
(* view is inserted, and no hook is invoked, before an Initialize has been handled. *)
C19_ViewsImplyPid ==
    /\ views # <<>> => pid # None
    /\ hooks # <<>> => pid # None
    /\ \A k \in DOMAIN views : Some(views[k].plugin_id) = pid

C19_Witness ==
    /\ pid = None
    /\ last.kind = "NewBuffer"
    /\ Len(last.buffer_info) = 2
    /\ panicked
    /\ views = <<>>
    /\ hooks = <<>>

(* C20: in every reachable state every registry entry is stored under the          *)
(* identifier of the view it holds (key = view.view_id), also after the new-view,  *)
(* did-save, config-changed, update and idle hooks had mutable access to the view. *)
C20_KeyIsViewId ==
    /\ \A k \in DOMAIN views : views[k].view_id = k
    /\ \A i \in 1..Len(hooks) : hooks[i].left.view_id = hooks[i].view.view_id

C20_Witness ==
    /\ last.kind \in {"DidSave", "ConfigChanged", "Update", "Idle"}
    /\ Len(hooks) = 1
    /\ hooks[1].left # hooks[1].view
    /\ Cardinality(DOMAIN views) = 2
    /\ views[Target(last)].view_id = Target(last)

====
